---- MODULE Spec2Model ----
(***************************************************************************)
(* sg108e-mgmt (src/index.js): the node routines Diagnosis, Info,          *)
(* SetSwitch, SetPort and SetVLAN that drive the Web-UI of a TP-Link       *)
(* SG108E switch.  Every routine is an async function; an action of this   *)
(* model is one continuation of a routine: it starts when the awaited      *)
(* fetch settles and runs to the next await (or to the routine's end).     *)
(* Strings are sequences of one-character strings.                         *)
(***************************************************************************)
EXTENDS Integers, Sequences, FiniteSets

VARIABLES
  op,                \* the routine that was called ("none" before the call)
  args,              \* its arguments after server, username, password
  pc,                \* the await the routine is suspended at, or how it ended
  reqs,              \* the requests handed to fetch, in order
  completed,         \* how many of them were answered with a response
  err,               \* the name of the error that ended the routine
  loginStatus,       \* HTTP status of the login response (never read)
  status2,           \* Diagnosis: HTTP status of the switch-info response
  connection_state,  \* Diagnosis: its local variable
  result,            \* the value the routine returned
  swtch,             \* Info: the object _switchInfo builds
  pages              \* Info: what the extractors found in each page received

vars == <<op, args, pc, reqs, completed, err, loginStatus, status2,
          connection_state, result, swtch, pages>>

infoVars == <<swtch, pages>>

(***************************************************************************)
(* JavaScript values.  Every value is a record of the same shape:          *)
(*   t: the type tag, n: the number, s: the characters / the elements.     *)
(***************************************************************************)
JsUndef == [t |-> "undefined", n |-> 0, s |-> <<>>]
JsNull == [t |-> "null", n |-> 0, s |-> <<>>]
JsNaN == [t |-> "nan", n |-> 0, s |-> <<>>]
JsNum(k) == [t |-> "number", n |-> k, s |-> <<>>]
JsStr(q) == [t |-> "string", n |-> 0, s |-> q]
JsArr(q) == [t |-> "array", n |-> 0, s |-> q]
JsFn(q) == [t |-> "function", n |-> 0, s |-> q]
JsObj == [t |-> "object", n |-> 0, s |-> <<>>]

Digits == <<"0", "1", "2", "3", "4", "5", "6", "7", "8", "9">>

RECURSIVE NatToStr(_)
NatToStr(k) ==
  IF k < 10 THEN <<Digits[k + 1]>>
  ELSE NatToStr(k \div 10) \o <<Digits[(k % 10) + 1]>>

IntToStr(k) == IF k < 0 THEN <<"-">> \o NatToStr(-k) ELSE NatToStr(k)

RECURSIVE Join(_)
Join(q) ==
  IF q = <<>> THEN <<>>
  ELSE IF Len(q) = 1 THEN IntToStr(q[1])
  ELSE IntToStr(q[1]) \o <<",">> \o Join(Tail(q))

S_undefined == <<"u", "n", "d", "e", "f", "i", "n", "e", "d">>
S_null == <<"n", "u", "l", "l">>
S_NaN == <<"N", "a", "N">>
S_function == <<"f", "u", "n", "c", "t", "i", "o", "n", " ">>
S_native == <<"(", ")", " ", "{", " ", "[", "n", "a", "t", "i", "v", "e", " ",
              "c", "o", "d", "e", "]", " ", "}">>
S_object == <<"[", "o", "b", "j", "e", "c", "t", " ", "O", "b", "j", "e", "c", "t", "]">>

\* String(v): the conversion '+' and property keys apply to a value.
JsToString(v) ==
  CASE v.t = "undefined" -> S_undefined
    [] v.t = "null" -> S_null
    [] v.t = "nan" -> S_NaN
    [] v.t = "number" -> IntToStr(v.n)
    [] v.t = "string" -> v.s
    [] v.t = "array" -> Join(v.s)
    [] v.t = "function" -> S_function \o v.s \o S_native
    [] v.t = "object" -> S_object

\* Boolean(v)
Truthy(v) ==
  CASE v.t = "undefined" -> FALSE
    [] v.t = "null" -> FALSE
    [] v.t = "nan" -> FALSE
    [] v.t = "number" -> v.n # 0
    [] v.t = "string" -> v.s # <<>>
    [] v.t = "array" -> TRUE
    [] v.t = "function" -> TRUE
    [] v.t = "object" -> TRUE

\* v === k for a number literal k
StrictEqNum(v, k) == v.t = "number" /\ v.n = k

\* v !== '' (strict) and v != '' (loose: arrays and numbers are converted)
StrictNeEmpty(v) == ~(v.t = "string" /\ v.s = <<>>)
LooseNeEmpty(v) ==
  CASE v.t = "undefined" -> TRUE
    [] v.t = "null" -> TRUE
    [] v.t = "nan" -> TRUE
    [] v.t = "number" -> v.n # 0
    [] v.t = "string" -> v.s # <<>>
    [] v.t = "array" -> Join(v.s) # <<>>
    [] v.t = "function" -> TRUE
    [] v.t = "object" -> TRUE

\* v.length: a number for strings and arrays, undefined otherwise
LengthOf(v) ==
  IF v.t \in {"string", "array"} THEN JsNum(Len(v.s)) ELSE JsUndef

\* a < k for a number literal k (undefined and NaN compare false)
LessThanNum(v, k) == v.t = "number" /\ v.n < k

WhiteSpace == {" ", "\t", "\n", "\r"}

DigitValue(c) == CHOOSE d \in 0..9 : Digits[d + 1] = c

RECURSIVE DigitRun(_)
DigitRun(q) ==
  IF q # <<>> /\ \E d \in 0..9 : Digits[d + 1] = Head(q)
  THEN <<Head(q)>> \o DigitRun(Tail(q))
  ELSE <<>>

RECURSIVE DigitsToNat(_, _)
DigitsToNat(q, acc) ==
  IF q = <<>> THEN acc ELSE DigitsToNat(Tail(q), 10 * acc + DigitValue(Head(q)))

RECURSIVE SkipWhite(_)
SkipWhite(q) ==
  IF q # <<>> /\ Head(q) \in WhiteSpace THEN SkipWhite(Tail(q)) ELSE q

\* str.trim()
RECURSIVE TrimEnd(_)
TrimEnd(q) ==
  IF q # <<>> /\ q[Len(q)] \in WhiteSpace THEN TrimEnd(SubSeq(q, 1, Len(q) - 1)) ELSE q

Trim(q) == TrimEnd(SkipWhite(q))


HexDigits == <<"0", "1", "2", "3", "4", "5", "6", "7", "8", "9",
               "a", "b", "c", "d", "e", "f">>
HexUpper == <<"0", "1", "2", "3", "4", "5", "6", "7", "8", "9",
              "A", "B", "C", "D", "E", "F">>

IsHexDigit(c) == \E d \in 0..15 : HexDigits[d + 1] = c \/ HexUpper[d + 1] = c
HexValue(c) == CHOOSE d \in 0..15 : HexDigits[d + 1] = c \/ HexUpper[d + 1] = c

RECURSIVE HexRun(_)
HexRun(q) ==
  IF q # <<>> /\ IsHexDigit(Head(q)) THEN <<Head(q)>> \o HexRun(Tail(q)) ELSE <<>>

RECURSIVE HexToNat(_, _)
HexToNat(q, acc) ==
  IF q = <<>> THEN acc ELSE HexToNat(Tail(q), 16 * acc + HexValue(Head(q)))

\* a faulty variant: the 0x prefix is not recognised
ParseInt16_NoPrefix(v) ==
  LET str == SkipWhite(JsToString(v))
      neg == str # <<>> /\ Head(str) = "-"
      signed == str # <<>> /\ Head(str) \in {"-", "+"}
      body == IF signed THEN Tail(str) ELSE str
      run == HexRun(body)
  IN IF run = <<>> THEN JsNaN
     ELSE JsNum(IF neg THEN 0 - HexToNat(run, 0) ELSE HexToNat(run, 0))

\* parseInt(v, 16): as parseInt, with an optional 0x or 0X before the digits
ParseInt16(v) ==
  LET str == SkipWhite(JsToString(v))
      neg == str # <<>> /\ Head(str) = "-"
      signed == str # <<>> /\ Head(str) \in {"-", "+"}
      body == IF signed THEN Tail(str) ELSE str
      prefixed == Len(body) >= 2 /\ body[1] = "0" /\ body[2] \in {"x", "X"}
      run == HexRun(IF prefixed THEN Tail(Tail(body)) ELSE body)
  IN IF run = <<>> THEN JsNaN
     ELSE JsNum(IF neg THEN 0 - HexToNat(run, 0) ELSE HexToNat(run, 0))

\* parseInt(v): String(v), leading white space skipped, an optional sign,
\* then the longest run of decimal digits (of hex digits after 0x or 0X);
\* NaN when there is no digit.
ParseInt(v) ==
  LET str == SkipWhite(JsToString(v))
      neg == str # <<>> /\ Head(str) = "-"
      signed == str # <<>> /\ Head(str) \in {"-", "+"}
      body == IF signed THEN Tail(str) ELSE str
      prefixed == Len(body) >= 2 /\ body[1] = "0" /\ body[2] \in {"x", "X"}
      run == IF prefixed THEN HexRun(Tail(Tail(body))) ELSE DigitRun(body)
      val == IF prefixed THEN HexToNat(run, 0) ELSE DigitsToNat(run, 0)
  IN IF run = <<>> THEN JsNaN
     ELSE JsNum(IF neg THEN 0 - val ELSE val)

\* str.split(sep) for a one-character separator
RECURSIVE SplitFrom(_, _, _)
SplitFrom(str, sep, cur) ==
  IF str = <<>> THEN <<cur>>
  ELSE IF Head(str) = sep THEN <<cur>> \o SplitFrom(Tail(str), sep, <<>>)
  ELSE SplitFrom(Tail(str), sep, Append(cur, Head(str)))

Split(str, sep) == SplitFrom(str, sep, <<>>)

\* list[i] for a 0-based index i of an array of strings: undefined past the end
At(list, i) == IF i + 1 <= Len(list) THEN JsStr(list[i + 1]) ELSE JsUndef

(***************************************************************************)
(* Constants of src/index.js                                               *)
(***************************************************************************)
LOGIN_PATH == ":80/logon.cgi"
LOGOUT_PATH == ":80/Logout.htm"
SWITCH_INFO_PATH == ":80/SystemInfoRpm.htm"
PORT_INFO_1_PATH == ":80/PortSettingRpm.htm"
PORT_INFO_2_PATH == ":80/PortStatisticsRpm.htm"
VLAN_INFO_PATH == ":80/Vlan8021QRpm.htm"
SWITCH_PATH == ":80/system_name_set.cgi"
VLAN_PATH == ":80/qvlanSet.cgi"
PORT_PATH == ":80/port_setting.cgi"

S_down == <<"d", "o", "w", "n">>
S_Auto == <<"A", "u", "t", "o">>
S_10MH == <<"1", "0", "M", "H">>
S_10MF == <<"1", "0", "M", "F">>
S_100MH == <<"1", "0", "0", "M", "H">>
S_100MF == <<"1", "0", "0", "M", "F">>
S_1000MF == <<"1", "0", "0", "0", "M", "F">>
S_empty == <<>>

SPEEDS == <<S_down, S_Auto, S_10MH, S_10MF, S_100MH, S_100MF, S_1000MF, S_empty>>

S_Disabled == <<"D", "i", "s", "a", "b", "l", "e", "d">>
S_Enabled == <<"E", "n", "a", "b", "l", "e", "d">>

STATES == <<S_Disabled, S_Enabled>>

\* The properties every object literal inherits from Object.prototype:
\* the key and the name of the function found there.
S_constructor == <<"c", "o", "n", "s", "t", "r", "u", "c", "t", "o", "r">>
S_Object == <<"O", "b", "j", "e", "c", "t">>
S_toString == <<"t", "o", "S", "t", "r", "i", "n", "g">>
S_valueOf == <<"v", "a", "l", "u", "e", "O", "f">>
S_proto == <<"_", "_", "p", "r", "o", "t", "o", "_", "_">>

ObjectPrototype(key) ==
  CASE key = S_constructor -> JsFn(S_Object)
    [] key = S_toString -> JsFn(S_toString)
    [] key = S_valueOf -> JsFn(S_valueOf)
    [] key = S_proto -> JsObj
    [] OTHER -> JsUndef

\* Faulty variant: the codes of 100MH and 100MF are swapped.
SPEED2VALUE_Swapped(speed) ==
  LET key == JsToString(speed)
  IN CASE key = S_down -> JsNum(0)
       [] key = S_Auto -> JsNum(1)
       [] key = S_10MH -> JsNum(2)
       [] key = S_10MF -> JsNum(3)
       [] key = S_100MH -> JsNum(5)
       [] key = S_100MF -> JsNum(4)
       [] key = S_1000MF -> JsNum(6)
       [] key = S_empty -> JsNum(7)
       [] OTHER -> ObjectPrototype(key)

\* SPEED2VALUE[speed]: the key is String(speed); an own property wins,
\* then the prototype chain, then undefined.
SPEED2VALUE(speed) ==
  LET key == JsToString(speed)
  IN CASE key = S_down -> JsNum(0)
       [] key = S_Auto -> JsNum(1)
       [] key = S_10MH -> JsNum(2)
       [] key = S_10MF -> JsNum(3)
       [] key = S_100MH -> JsNum(4)
       [] key = S_100MF -> JsNum(5)
       [] key = S_1000MF -> JsNum(6)
       [] key = S_empty -> JsNum(7)
       [] OTHER -> ObjectPrototype(key)

\* The characters of the class [a-zA-Z0-9-_]
AllowedChars ==
  {"a", "b", "c", "d", "e", "f", "g", "h", "i", "j", "k", "l", "m",
   "n", "o", "p", "q", "r", "s", "t", "u", "v", "w", "x", "y", "z",
   "A", "B", "C", "D", "E", "F", "G", "H", "I", "J", "K", "L", "M",
   "N", "O", "P", "Q", "R", "S", "T", "U", "V", "W", "X", "Y", "Z",
   "0", "1", "2", "3", "4", "5", "6", "7", "8", "9", "-", "_"}

\* /^[a-zA-Z0-9-_]+$/.test(v): the argument is converted with String(v)
RegexTest(v) ==
  LET str == JsToString(v)
  IN Len(str) >= 1 /\ \A i \in 1..Len(str) : str[i] \in AllowedChars

NameLimit == 32
VlanIdMin == 2
VlanIdMax == 32
PortMin == 1
PortMax == 8
StatusOK == 200

(***************************************************************************)
(* Requests: the method, the path after 'http://' + server, and the query  *)
(* as the sequence of its key/value pairs, each value the String() of the  *)
(* value the code concatenates.                                            *)
(***************************************************************************)
Req(method, path, query) == [method |-> method, path |-> path, query |-> query]

LoginReq == Req("POST", LOGIN_PATH, <<>>)
LogoutReq == Req("GET", LOGOUT_PATH, <<>>)
Get(path) == Req("GET", path, <<>>)

S_Apply == <<"A", "p", "p", "l", "y">>
S_Delete == <<"D", "e", "l", "e", "t", "e">>
S_AddModify == <<"A", "d", "d", "%", "2", "F", "M", "o", "d", "i", "f", "y">>

\* SetSwitch: '?sysName=' + name
RenameReq(name) == Req("GET", SWITCH_PATH, << <<"sysName", JsToString(name)>> >>)

\* SetSwitch: '?qvlan_en=' + vlan + '&qvlan_mode=Apply'
VlanModeReq(vlan) ==
  Req("GET", VLAN_PATH,
      << <<"qvlan_en", JsToString(vlan)>>, <<"qvlan_mode", S_Apply>> >>)

\* SetPort: '?portid=' + portIndex + '&state=' + mode + '&speed=' + speedIndex
\*          + '&flowcontrol=0&apply=Apply'
PortReq(portIndex, mode, speedIndex) ==
  Req("GET", PORT_PATH,
      << <<"portid", JsToString(portIndex)>>, <<"state", JsToString(mode)>>,
         <<"speed", JsToString(speedIndex)>>, <<"flowcontrol", <<"0">> >>,
         <<"apply", S_Apply>> >>)

\* SetVLAN: '?selVlans=' + vlanIndex + '&qvlan_del=Delete'
VlanDelReq(vlanIndex) ==
  Req("GET", VLAN_PATH,
      << <<"selVlans", JsToString(vlanIndex)>>, <<"qvlan_del", S_Delete>> >>)

\* members.includes(p)
Includes(members, p) == \E i \in 1..Len(members.s) : members.s[i] = p

\* a faulty variant: 1 and 2 exchanged
SelType_Exchanged(members, p) == IF Includes(members, p) THEN <<"2">> ELSE <<"1">>

SelType(members, p) == IF Includes(members, p) THEN <<"1">> ELSE <<"2">>

\* SetVLAN: '?vid=' + vlanIndex + '&vname=' + name + '&selType_1=' ... +
\*          '&selType_8=' ... + '&qvlan_add=Add%2FModify'
VlanAddReq(vlanIndex, name, members) ==
  Req("GET", VLAN_PATH,
      << <<"vid", JsToString(vlanIndex)>>, <<"vname", JsToString(name)>>,
         <<"selType_1", SelType(members, 1)>>, <<"selType_2", SelType(members, 2)>>,
         <<"selType_3", SelType(members, 3)>>, <<"selType_4", SelType(members, 4)>>,
         <<"selType_5", SelType(members, 5)>>, <<"selType_6", SelType(members, 6)>>,
         <<"selType_7", SelType(members, 7)>>, <<"selType_8", SelType(members, 8)>>,
         <<"qvlan_add", S_AddModify>> >>)

(***************************************************************************)
(* The conditions that guard the requests                                  *)
(***************************************************************************)
\* SetSwitch: name && name !== '' && name.length < 32 || regex.test(name)
NameCond(name) ==
  \/ (Truthy(name) /\ StrictNeEmpty(name) /\ LessThanNum(LengthOf(name), NameLimit))
  \/ RegexTest(name)

\* SetSwitch: vlan && (vlan === 0 || vlan === 1)
VlanModeCond(vlan) ==
  Truthy(vlan) /\ (StrictEqNum(vlan, 0) \/ StrictEqNum(vlan, 1))

\* SetPort: 1 <= portIndex && portIndex <= 8 && (mode === 0 || mode === 1)
\*          && speedIndex
PortCond(portIndex, mode, speedIndex) ==
  /\ portIndex.t = "number" /\ PortMin <= portIndex.n /\ portIndex.n <= PortMax
  /\ (StrictEqNum(mode, 0) \/ StrictEqNum(mode, 1))
  /\ Truthy(speedIndex)

\* a faulty variant: a list without a port of 1..8 is refused
VlanCond_MembersChecked(vlanIndex, name, members) ==
  /\ vlanIndex.t = "number" /\ VlanIdMin <= vlanIndex.n /\ vlanIndex.n <= VlanIdMax
  /\ Truthy(name) /\ LooseNeEmpty(name) /\ RegexTest(name)
  /\ members.t = "array"
  /\ (members.s = <<>> \/ \E i \in 1..Len(members.s) : members.s[i] \in PortMin..PortMax)

\* a faulty variant: the reserved id 1 is accepted
VlanCond_FromOne(vlanIndex, name, members) ==
  /\ vlanIndex.t = "number" /\ VlanIdMin - 1 <= vlanIndex.n /\ vlanIndex.n <= VlanIdMax
  /\ Truthy(name) /\ LooseNeEmpty(name) /\ RegexTest(name)
  /\ members.t = "array"

\* SetVLAN: 2 <= vlanIndex && vlanIndex <= 32 && name && name != ''
\*          && regex.test(name) && Array.isArray(members)
VlanCond(vlanIndex, name, members) ==
  /\ vlanIndex.t = "number" /\ VlanIdMin <= vlanIndex.n /\ vlanIndex.n <= VlanIdMax
  /\ Truthy(name) /\ LooseNeEmpty(name) /\ RegexTest(name)
  /\ members.t = "array"

(***************************************************************************)
(* The arguments the routines are called with                              *)
(***************************************************************************)
MaxShort == 2
MaxPortArg == 9
MaxStateArg == 2
MaxFlag == 2
MaxLowVlan == 3
MaxMembers == 2

NameChars == {"a", "7", "-", "_", " "}
ShortStrings == UNION {[1..k -> NameChars] : k \in 0..MaxShort}
Pad(k) == [i \in 1..k |-> "a"]

\* names of 0..MaxShort characters, and names around the length limit
SwitchNames ==
  {JsStr(Pad(k) \o q) : k \in {0, NameLimit - 2}, q \in ShortStrings} \cup {JsUndef}
VlanFlags ==
  {JsNum(k) : k \in 0..MaxFlag} \cup {JsStr(<<"1">>), JsUndef}

PortArgs ==
  {JsNum(k) : k \in 0..MaxPortArg} \cup {JsStr(<<"4">>), JsStr(<<"4", "x">>), JsUndef}
StateArgs ==
  {JsNum(k) : k \in -1..MaxStateArg} \cup {JsStr(<<"1">>), JsUndef}
SpeedArgs ==
  {JsStr(SPEEDS[i]) : i \in 1..Len(SPEEDS)}
    \cup {JsStr(<<"1", "G">>), JsStr(S_constructor), JsUndef}

VlanIdArgs ==
  {JsNum(k) : k \in 0..MaxLowVlan}
    \cup {JsNum(VlanIdMax), JsNum(VlanIdMax + 1), JsStr(<<"5">>)}
VlanNames ==
  {JsStr(q) : q \in UNION {[1..k -> NameChars] : k \in 0..1}}
    \cup {JsStr(<<"o", "p", "s", "-", "1">>), JsUndef, JsArr(<<>>)}
MemberPorts == {1, 9}
MemberArgs ==
  {JsArr(q) : q \in UNION {[1..k -> MemberPorts] : k \in 0..MaxMembers}}
    \cup {JsUndef}

NoArgs ==
  [name |-> JsUndef, vlan |-> JsUndef, port |-> JsUndef, state |-> JsUndef,
   speed |-> JsUndef, members |-> JsUndef]

Statuses == {StatusOK, 401}

\* fetch(r): the request is handed to the transport and the routine is
\* suspended at `at` until the promise settles.
Await(r, at) == reqs' = Append(reqs, r) /\ pc' = at

\* The awaited fetch was fulfilled with a response.
Fulfilled(at) == pc = at /\ completed' = completed + 1

Call(routine, a) ==
  /\ pc = "idle"
  /\ op' = routine
  /\ args' = a
  /\ Await(LoginReq, "login")
  /\ UNCHANGED <<completed, err, loginStatus, status2, result, pages>>

\* _logout resolved and the routine returns v
Return(v) ==
  /\ Fulfilled("logout")
  /\ pc' = "returned"
  /\ result' = v
  /\ UNCHANGED infoVars
  /\ UNCHANGED <<op, args, reqs, err, loginStatus, status2, connection_state>>

(***************************************************************************)
(* Diagnosis                                                               *)
(***************************************************************************)
Diagnosis_Call ==
  /\ Call("Diagnosis", NoArgs)
  /\ UNCHANGED swtch
  /\ connection_state' = "not accessible"

Diagnosis_AfterLogin ==
  /\ op = "Diagnosis"
  /\ Fulfilled("login")
  /\ \E s \in Statuses : loginStatus' = s
  /\ connection_state' = "not authorized"
  /\ Await(Get(SWITCH_INFO_PATH), "switchInfo")
  /\ UNCHANGED infoVars
  /\ UNCHANGED <<op, args, err, status2, result>>

\* Faulty variant: every status counts as a success.
StatusIsOk_Any(s) == TRUE

\* status2 == 200
StatusIsOk(s) == s = StatusOK

\* Faulty variant: the logout is sent only after a successful read.
Diagnosis_AfterInfo_NoLogout ==
  /\ op = "Diagnosis"
  /\ Fulfilled("switchInfo")
  /\ \E s \in Statuses :
       /\ status2' = s
       /\ IF StatusIsOk(s)
          THEN /\ connection_state' = "authorized"
               /\ Await(LogoutReq, "logout")
               /\ UNCHANGED result
          ELSE /\ pc' = "returned"
               /\ result' = connection_state
               /\ UNCHANGED <<reqs, connection_state>>
  /\ UNCHANGED infoVars
  /\ UNCHANGED <<op, args, err, loginStatus>>

Diagnosis_AfterInfo ==
  /\ op = "Diagnosis"
  /\ Fulfilled("switchInfo")
  /\ \E s \in Statuses :
       /\ status2' = s
       /\ connection_state' = IF StatusIsOk(s) THEN "authorized" ELSE connection_state
  /\ Await(LogoutReq, "logout")
  /\ UNCHANGED infoVars
  /\ UNCHANGED <<op, args, err, loginStatus, result>>

Diagnosis_AfterLogout ==
  /\ op = "Diagnosis"
  /\ Fulfilled("logout")
  /\ pc' = "returned"
  /\ result' = connection_state
  /\ UNCHANGED infoVars
  /\ UNCHANGED <<op, args, reqs, err, loginStatus, status2, connection_state>>

\* The errors a fetch of Diagnosis can reject with: only the login fetch
\* carries AbortSignal.timeout(1000), so only it can reject with AbortError.
DiagnosisErrors(at) ==
  IF at = "login" THEN {"AbortError", "FetchError"} ELSE {"FetchError"}

\* Faulty variant: the catch block swallows every error.
Diagnosis_Catch_All ==
  /\ op = "Diagnosis"
  /\ pc \in {"login", "switchInfo", "logout"}
  /\ \E e \in DiagnosisErrors(pc) :
       /\ err' = e
       /\ pc' = "returned"
       /\ result' = connection_state
  /\ UNCHANGED infoVars
  /\ UNCHANGED <<op, args, reqs, completed, loginStatus, status2, connection_state>>

\* catch (error): an AbortError falls through to the return statement,
\* every other error ends the process with process.exit(1).
Diagnosis_Catch ==
  /\ op = "Diagnosis"
  /\ pc \in {"login", "switchInfo", "logout"}
  /\ \E e \in DiagnosisErrors(pc) :
       /\ err' = e
       /\ IF e # "AbortError"
          THEN pc' = "exited" /\ UNCHANGED result
          ELSE pc' = "returned" /\ result' = connection_state
  /\ UNCHANGED infoVars
  /\ UNCHANGED <<op, args, reqs, completed, loginStatus, status2, connection_state>>

(***************************************************************************)
(* SetSwitch                                                               *)
(***************************************************************************)
SetSwitch_Call ==
  \E name \in SwitchNames, vlan \in VlanFlags :
    /\ Call("SetSwitch", [NoArgs EXCEPT !.name = name, !.vlan = vlan])
    /\ UNCHANGED <<connection_state, swtch>>

\* "adjust VLAN mode" and what follows it up to the next await
SetSwitch_AdjustVlan ==
  IF VlanModeCond(args.vlan)
  THEN Await(VlanModeReq(args.vlan), "vlanMode")
  ELSE Await(LogoutReq, "logout")

\* Faulty variant: the VLAN mode is only looked at after a rename.
SetSwitch_AfterLogin_Nested ==
  /\ op = "SetSwitch"
  /\ Fulfilled("login")
  /\ \E s \in Statuses : loginStatus' = s
  /\ IF NameCond(args.name)
     THEN Await(RenameReq(args.name), "rename")
     ELSE Await(LogoutReq, "logout")
  /\ UNCHANGED infoVars
  /\ UNCHANGED <<op, args, err, status2, connection_state, result>>

SetSwitch_AfterLogin ==
  /\ op = "SetSwitch"
  /\ Fulfilled("login")
  /\ \E s \in Statuses : loginStatus' = s
  /\ IF NameCond(args.name)
     THEN Await(RenameReq(args.name), "rename")
     ELSE SetSwitch_AdjustVlan
  /\ UNCHANGED infoVars
  /\ UNCHANGED <<op, args, err, status2, connection_state, result>>

SetSwitch_AfterRename ==
  /\ op = "SetSwitch"
  /\ Fulfilled("rename")
  /\ SetSwitch_AdjustVlan
  /\ UNCHANGED infoVars
  /\ UNCHANGED <<op, args, err, loginStatus, status2, connection_state, result>>

SetSwitch_AfterVlanMode ==
  /\ op = "SetSwitch"
  /\ Fulfilled("vlanMode")
  /\ Await(LogoutReq, "logout")
  /\ UNCHANGED infoVars
  /\ UNCHANGED <<op, args, err, loginStatus, status2, connection_state, result>>

SetSwitch_AfterLogout == op = "SetSwitch" /\ Return("undefined")

(***************************************************************************)
(* SetPort                                                                 *)
(***************************************************************************)
SetPort_Call ==
  \E port \in PortArgs, state \in StateArgs, speed \in SpeedArgs :
    /\ Call("SetPort", [NoArgs EXCEPT !.port = port, !.state = state, !.speed = speed])
    /\ UNCHANGED <<connection_state, swtch>>

SetPort_AfterLogin ==
  /\ op = "SetPort"
  /\ Fulfilled("login")
  /\ \E s \in Statuses : loginStatus' = s
  /\ LET portIndex == ParseInt(args.port)
         mode == ParseInt(args.state)
         speedIndex == SPEED2VALUE(args.speed)
     IN IF PortCond(portIndex, mode, speedIndex)
        THEN Await(PortReq(portIndex, mode, speedIndex), "port")
        ELSE Await(LogoutReq, "logout")
  /\ UNCHANGED infoVars
  /\ UNCHANGED <<op, args, err, status2, connection_state, result>>

\* Faulty variant: the routine returns without the logout.
SetPort_AfterPort_NoLogout ==
  /\ op = "SetPort"
  /\ Fulfilled("port")
  /\ pc' = "returned"
  /\ result' = "undefined"
  /\ UNCHANGED infoVars
  /\ UNCHANGED <<op, args, reqs, err, loginStatus, status2, connection_state>>

SetPort_AfterPort ==
  /\ op = "SetPort"
  /\ Fulfilled("port")
  /\ Await(LogoutReq, "logout")
  /\ UNCHANGED infoVars
  /\ UNCHANGED <<op, args, err, loginStatus, status2, connection_state, result>>

SetPort_AfterLogout == op = "SetPort" /\ Return("undefined")

(***************************************************************************)
(* SetVLAN                                                                 *)
(***************************************************************************)
SetVLAN_Call ==
  \E vlan \in VlanIdArgs, name \in VlanNames, members \in MemberArgs :
    /\ Call("SetVLAN", [NoArgs EXCEPT !.vlan = vlan, !.name = name, !.members = members])
    /\ UNCHANGED <<connection_state, swtch>>

\* a faulty variant: the two branches are exchanged
SetVLAN_AfterLogin_Exchanged ==
  /\ op = "SetVLAN"
  /\ Fulfilled("login")
  /\ \E s \in Statuses : loginStatus' = s
  /\ LET vlanIndex == ParseInt(args.vlan)
     IN IF VlanCond(vlanIndex, args.name, args.members)
        THEN IF Len(args.members.s) = 0
             THEN Await(VlanAddReq(vlanIndex, args.name, args.members), "vlan")
             ELSE Await(VlanDelReq(vlanIndex), "vlan")
        ELSE Await(LogoutReq, "logout")
  /\ UNCHANGED infoVars
  /\ UNCHANGED <<op, args, err, status2, connection_state, result>>

SetVLAN_AfterLogin ==
  /\ op = "SetVLAN"
  /\ Fulfilled("login")
  /\ \E s \in Statuses : loginStatus' = s
  /\ LET vlanIndex == ParseInt(args.vlan)
     IN IF VlanCond(vlanIndex, args.name, args.members)
        THEN IF Len(args.members.s) = 0
             THEN Await(VlanDelReq(vlanIndex), "vlan")
             ELSE Await(VlanAddReq(vlanIndex, args.name, args.members), "vlan")
        ELSE Await(LogoutReq, "logout")
  /\ UNCHANGED infoVars
  /\ UNCHANGED <<op, args, err, status2, connection_state, result>>

SetVLAN_AfterVlan ==
  /\ op = "SetVLAN"
  /\ Fulfilled("vlan")
  /\ Await(LogoutReq, "logout")
  /\ UNCHANGED infoVars
  /\ UNCHANGED <<op, args, err, loginStatus, status2, connection_state, result>>

SetVLAN_AfterLogout == op = "SetVLAN" /\ Return("undefined")

(***************************************************************************)
(* A fetch of Info, SetSwitch, SetPort or SetVLAN rejects (connection      *)
(* refused, reset, ...).  None of the four has a try block, so the error   *)
(* leaves the routine at the await and nothing after it runs.              *)
(***************************************************************************)
AwaitPoints ==
  {"login", "rename", "vlanMode", "port", "vlan", "switchInfo", "portInfo1",
   "portInfo2", "vlanInfo", "logout"}

FetchRejects ==
  /\ op \in {"Info", "SetSwitch", "SetPort", "SetVLAN"}
  /\ pc \in AwaitPoints
  /\ pc' = "rejected"
  /\ err' = "FetchError"
  /\ UNCHANGED infoVars
  /\ UNCHANGED <<op, args, reqs, completed, loginStatus, status2,
                 connection_state, result>>


(***************************************************************************)
(* Info: the pages and what _switchInfo, _portInfo1, _portInfo2 and        *)
(* _vlanInfo make of them.  A page is modelled by what the extractors      *)
(* return for it: script is whether extractTagContent found a non-empty    *)
(* first script, every other field is the result of extractVariable or     *)
(* extractAttribute for that key (a string, or null when not found).       *)
(***************************************************************************)
\* value of a thrown TypeError / of a step that ran to its end
Thrown(sw) == [ok |-> FALSE, swtch |-> sw]
Done(sw) == [ok |-> TRUE, swtch |-> sw]

\* stripQuotes(txt): txt.startsWith throws for null and undefined
StripQuotesThrows(v) == v.t # "string"

DropLast(q) == SubSeq(q, 1, Len(q) - 1)

StripQuotes(str) ==
  LET quoted(c) == str # <<>> /\ Head(str) = c /\ str[Len(str)] = c
      strip(c) == LET rest == Tail(str)
                  IN IF rest # <<>> /\ rest[Len(rest)] = c THEN DropLast(rest) ELSE rest
  IN IF quoted("\"") THEN strip("\"")
     ELSE IF quoted("'") THEN strip("'")
     ELSE str

\* STATES[k] for a number k
StateOf(k) ==
  IF k.t = "number" /\ 0 <= k.n /\ k.n < Len(STATES) THEN JsStr(STATES[k.n + 1])
  ELSE JsUndef

\* SPEEDS[key]: the key is String(key); only the canonical text of an index
\* 0..7 names an element ('length' names the length)
SpeedOf(key) ==
  LET str == JsToString(key)
  IN IF \E k \in 0..(Len(SPEEDS) - 1) : IntToStr(k) = str
     THEN JsStr(SPEEDS[(CHOOSE k \in 0..(Len(SPEEDS) - 1) : IntToStr(k) = str) + 1])
     ELSE IF str = <<"l", "e", "n", "g", "t", "h">> THEN JsNum(Len(SPEEDS))
     ELSE JsUndef

\* the bound of a loop `for (i = 0; i < count; i++)`
LoopCount(count) == IF count.t = "number" /\ count.n > 0 THEN count.n ELSE 0

IdentityKeys ==
  {"hardwareStr", "firmwareStr", "descriStr", "macStr", "ipStr", "netmaskStr",
   "gatewayStr"}

EmptySwitch ==
  [created |-> FALSE, hardware |-> JsUndef, fimrware |-> JsUndef, name |-> JsUndef,
   mac |-> JsUndef, ip |-> JsUndef, netmask |-> JsUndef, gateway |-> JsUndef,
   vlan |-> JsUndef, ports |-> <<>>, vlans |-> <<>>]

\* _switchInfo, lines 461-474: created records that ports and vlans exist
SwitchInfoParse(page, sw) ==
  IF ~page.script THEN Done(sw)
  ELSE IF \E k \in IdentityKeys : StripQuotesThrows(page.attrs[k]) THEN Thrown(sw)
  ELSE Done([sw EXCEPT
         !.created = TRUE,
         !.hardware = JsStr(StripQuotes(page.attrs["hardwareStr"].s)),
         !.fimrware = JsStr(StripQuotes(page.attrs["firmwareStr"].s)),
         !.name = JsStr(StripQuotes(page.attrs["descriStr"].s)),
         !.mac = JsStr(StripQuotes(page.attrs["macStr"].s)),
         !.ip = JsStr(StripQuotes(page.attrs["ipStr"].s)),
         !.netmask = JsStr(StripQuotes(page.attrs["netmaskStr"].s)),
         !.gateway = JsStr(StripQuotes(page.attrs["gatewayStr"].s)),
         !.vlan = JsStr(STATES[1]),
         !.ports = <<>>,
         !.vlans = <<>>])

NewPort ==
  [number |-> JsUndef, state |-> JsUndef, speed |-> JsUndef, link |-> JsUndef,
   TxGoodPkt |-> JsUndef, TxBadPkt |-> JsUndef, RxGoodPkt |-> JsUndef,
   RxBadPkt |-> JsUndef]

\* _portInfo1, lines 515-534
PortInfo1Parse(page, sw) ==
  IF ~page.script THEN Done(sw)
  ELSE IF page.state.t # "string" \/ page.spd_act.t # "string" THEN Thrown(sw)
  ELSE
    LET ports == LoopCount(ParseInt(page.max_port_num))
        states == Split(page.state.s, ",")
        speeds == Split(page.spd_act.s, ",")
        port(portIndex) ==
          [NewPort EXCEPT
             !.number = JsNum(portIndex + 1),
             !.state = StateOf(ParseInt(At(states, portIndex))),
             !.speed = SpeedOf(At(speeds, portIndex))]
        size == IF ports > Len(sw.ports) THEN ports ELSE Len(sw.ports)
    IN IF ports >= 1 /\ ~sw.created THEN Thrown(sw)
       ELSE Done([sw EXCEPT !.ports =
              [i \in 1..size |-> IF i <= ports THEN port(i - 1) ELSE sw.ports[i]]])

\* _portInfo2, lines 565-583
PortInfo2Parse(page, sw) ==
  IF ~page.script THEN Done(sw)
  ELSE IF page.link_status.t # "string" \/ page.pkts.t # "string" THEN Thrown(sw)
  ELSE
    LET ports == LoopCount(ParseInt(page.max_port_num))
        links == Split(page.link_status.s, ",")
        pkts == Split(page.pkts.s, ",")
        port(portIndex) ==
          [sw.ports[portIndex + 1] EXCEPT
             !.link = SpeedOf(At(links, portIndex)),
             !.TxGoodPkt = ParseInt(At(pkts, 4 * portIndex + 0)),
             !.TxBadPkt = ParseInt(At(pkts, 4 * portIndex + 1)),
             !.RxGoodPkt = ParseInt(At(pkts, 4 * portIndex + 2)),
             !.RxBadPkt = ParseInt(At(pkts, 4 * portIndex + 3))]
        enriched == [sw EXCEPT !.ports =
              [i \in 1..Len(sw.ports) |-> IF i <= ports THEN port(i - 1) ELSE sw.ports[i]]]
    \* swtch.ports[portIndex] is undefined for a port that was not allocated
    \* (swtch.ports itself when no identity page was parsed): the assignment
    \* to port.link throws, after the allocated ports were filled
    IN IF ports >= 1 /\ ~sw.created THEN Thrown(sw)
       ELSE IF ports > Len(sw.ports) THEN Thrown(enriched)
       ELSE Done(enriched)

\* the ports 1..16 whose bit is set in value, in ascending order
RECURSIVE BitPorts(_, _)
BitPorts(value, portIndex) ==
  IF portIndex >= 16 THEN <<>>
  ELSE LET isBitSet == value.t = "number"
                         /\ ((value.n % 65536) \div (2 ^ portIndex)) % 2 = 1
       IN (IF isBitSet THEN <<portIndex + 1>> ELSE <<>>) \o BitPorts(value, portIndex + 1)

\* _vlanInfo, lines 631-675
VlanInfoParse(page, sw) ==
  IF ~page.script THEN Done(sw)
  ELSE IF \/ page.vids.t # "string" \/ page.names.t # "string"
          \/ page.tagMbrs.t # "string" \/ page.untagMbrs.t # "string"
       THEN Thrown(sw)
  ELSE
    LET sw1 == [sw EXCEPT !.vlan = StateOf(ParseInt(page.state))]
        vlans == LoopCount(ParseInt(page.count))
        vids == Split(page.vids.s, ",")
        names == Split(page.names.s, ",")
        tag == Split(page.tagMbrs.s, ",")
        untag == Split(page.untagMbrs.s, ",")
        vlan(vlanIndex) ==
          [name |-> JsStr(StripQuotes(At(names, vlanIndex).s)),
           id |-> ParseInt(At(vids, vlanIndex)),
           tagged |-> BitPorts(ParseInt16(At(tag, vlanIndex)), 0),
           untagged |-> BitPorts(ParseInt16(At(untag, vlanIndex)), 0)]
        size == IF vlans > Len(sw.vlans) THEN vlans ELSE Len(sw.vlans)
    IN IF vlans >= 1 /\ (~sw.created \/ vlans > Len(names)) THEN Thrown(sw1)
       ELSE Done([sw1 EXCEPT !.vlans =
              [i \in 1..size |-> IF i <= vlans THEN vlan(i - 1) ELSE sw.vlans[i]]])

(***************************************************************************)
(* The pages the device answers with                                       *)
(***************************************************************************)
MaxPorts == 2
MaxVlans == 2

RECURSIVE JoinSep(_, _)
JoinSep(items, sep) ==
  IF items = <<>> THEN <<>>
  ELSE IF Len(items) = 1 THEN items[1]
  ELSE items[1] \o sep \o JoinSep(Tail(items), sep)

\* the text of a list of numbers, the entries separated by sep
CodeList(codes, sep) == JsStr(JoinSep([i \in 1..Len(codes) |-> IntToStr(codes[i])], sep))

Separators == {<<",">>, <<",", " ">>}

NoIdentityPage == [script |-> FALSE, attrs |-> [k \in IdentityKeys |-> JsNull]]
FullIdentityPage ==
  [script |-> TRUE, attrs |-> [k \in IdentityKeys |-> JsStr(<<"\"", "x", "\"">>)]]
IdentityPages ==
  {NoIdentityPage, FullIdentityPage,
   [FullIdentityPage EXCEPT !.attrs["macStr"] = JsNull]}

NoSettingPage ==
  [script |-> FALSE, max_port_num |-> JsNull, state |-> JsNull, spd_cfg |-> JsNull,
   spd_act |-> JsNull]
SettingPage(count, sep, variant) ==
  [script |-> TRUE,
   max_port_num |-> JsStr(IntToStr(count)),
   state |-> IF variant = "missing" THEN JsNull
             ELSE CodeList([i \in 1..MaxPorts |-> i % 2], sep),
   spd_cfg |-> CodeList([i \in 1..MaxPorts |-> 1], sep),
   spd_act |-> CodeList([i \in 1..MaxPorts |->
                           IF variant = "range" THEN 9 ELSE IF i = 1 THEN 6 ELSE 0], sep)]
SettingPages ==
  {NoSettingPage} \cup
  {SettingPage(count, sep, variant) :
     count \in {MaxPorts - 1, MaxPorts}, sep \in Separators,
     variant \in {"good", "missing", "range"}} \cup
  \* a device that reports more than eight ports
  {SettingPage(PortMax + 1, <<",">>, "good")}

NoStatsPage ==
  [script |-> FALSE, max_port_num |-> JsNull, link_status |-> JsNull, pkts |-> JsNull]
StatsPage(count, sep, variant) ==
  [script |-> TRUE,
   max_port_num |-> JsStr(IntToStr(count)),
   link_status |-> IF variant = "missing" THEN JsNull
                   ELSE CodeList([i \in 1..MaxPorts |-> IF i = 1 THEN 5 ELSE 0], sep),
   pkts |-> CodeList([i \in 1..(4 * MaxPorts) |-> 10 + i], sep)]
StatsPages ==
  {NoStatsPage} \cup
  {StatsPage(count, sep, variant) :
     count \in {MaxPorts, MaxPorts + 1}, sep \in Separators,
     variant \in {"good", "missing"}}

NoVlanPage ==
  [script |-> FALSE, state |-> JsNull, count |-> JsNull, vids |-> JsNull,
   names |-> JsNull, tagMbrs |-> JsNull, untagMbrs |-> JsNull]
VlanPage(sep, variant) ==
  [script |-> TRUE,
   state |-> JsStr(<<"1">>),
   count |-> JsStr(IntToStr(MaxVlans)),
   vids |-> CodeList([i \in 1..MaxVlans |-> 2 * i - 1], sep),
   names |-> IF variant = "missing" THEN JsNull
             ELSE JsStr(JoinSep([i \in 1..MaxVlans |-> <<"'", "n">> \o IntToStr(i) \o <<"'">>],
                                sep)),
   tagMbrs |-> JsStr(JoinSep([i \in 1..MaxVlans |->
                                IF i = 1 THEN <<"0", "x", "0">> ELSE <<"0", "x", "A", "A">>],
                             sep)),
   untagMbrs |-> JsStr(JoinSep([i \in 1..MaxVlans |->
                                  IF i = 1 THEN <<"0", "x", "F", "F">> ELSE <<"0", "x", "0">>],
                               sep))]
VlanPages ==
  {NoVlanPage} \cup
  {VlanPage(sep, variant) : sep \in Separators, variant \in {"good", "missing"}}

NoPages ==
  [identity |-> NoIdentityPage, setting |-> NoSettingPage, stats |-> NoStatsPage,
   vlan |-> NoVlanPage]

(***************************************************************************)
(* Info                                                                    *)
(***************************************************************************)
Info_Call ==
  /\ Call("Info", NoArgs)
  /\ UNCHANGED <<connection_state, swtch>>

\* a faulty variant: a login answered with another status than 200 ends the
\* session
Info_AfterLogin_Gated ==
  /\ op = "Info"
  /\ Fulfilled("login")
  /\ \E s \in Statuses :
       /\ loginStatus' = s
       /\ IF s = StatusOK
          THEN Await(Get(SWITCH_INFO_PATH), "switchInfo")
          ELSE Await(LogoutReq, "logout")
  /\ swtch' = EmptySwitch
  /\ UNCHANGED <<op, args, err, status2, connection_state, result, pages>>

\* _switchInfo starts: const swtch = {}
Info_AfterLogin ==
  /\ op = "Info"
  /\ Fulfilled("login")
  /\ \E s \in Statuses : loginStatus' = s
  /\ swtch' = EmptySwitch
  /\ Await(Get(SWITCH_INFO_PATH), "switchInfo")
  /\ UNCHANGED <<op, args, err, status2, connection_state, result, pages>>

\* The page was parsed: a TypeError leaves Info here, otherwise the next
\* request is sent.
Parsed(r, next, at) ==
  /\ swtch' = r.swtch
  /\ IF r.ok
     THEN Await(next, at) /\ UNCHANGED err
     ELSE pc' = "rejected" /\ err' = "TypeError" /\ UNCHANGED reqs
  /\ UNCHANGED <<op, args, loginStatus, status2, connection_state, result>>

Info_AfterSwitchInfo ==
  /\ op = "Info"
  /\ Fulfilled("switchInfo")
  /\ \E page \in IdentityPages :
       /\ pages' = [pages EXCEPT !.identity = page]
       /\ Parsed(SwitchInfoParse(page, swtch), Get(PORT_INFO_1_PATH), "portInfo1")

\* a faulty variant: the statistics page is not fetched
Info_AfterPortInfo1_SkipStats ==
  /\ op = "Info"
  /\ Fulfilled("portInfo1")
  /\ \E page \in SettingPages :
       /\ pages' = [pages EXCEPT !.setting = page]
       /\ Parsed(PortInfo1Parse(page, swtch), Get(VLAN_INFO_PATH), "vlanInfo")

Info_AfterPortInfo1 ==
  /\ op = "Info"
  /\ Fulfilled("portInfo1")
  /\ \E page \in SettingPages :
       /\ pages' = [pages EXCEPT !.setting = page]
       /\ Parsed(PortInfo1Parse(page, swtch), Get(PORT_INFO_2_PATH), "portInfo2")

Info_AfterPortInfo2 ==
  /\ op = "Info"
  /\ Fulfilled("portInfo2")
  /\ \E page \in StatsPages :
       /\ pages' = [pages EXCEPT !.stats = page]
       /\ Parsed(PortInfo2Parse(page, swtch), Get(VLAN_INFO_PATH), "vlanInfo")

Info_AfterVlanInfo ==
  /\ op = "Info"
  /\ Fulfilled("vlanInfo")
  /\ \E page \in VlanPages :
       /\ pages' = [pages EXCEPT !.vlan = page]
       /\ Parsed(VlanInfoParse(page, swtch), LogoutReq, "logout")

\* return result, the object {switch: swtch}
Info_AfterLogout == op = "Info" /\ Return("switch")

Init ==
  /\ op = "none"
  /\ args = NoArgs
  /\ pc = "idle"
  /\ reqs = <<>>
  /\ completed = 0
  /\ err = "none"
  /\ loginStatus = 0
  /\ status2 = 0
  /\ connection_state = "none"
  /\ result = "none"
  /\ swtch = EmptySwitch
  /\ pages = NoPages

Next ==
  \/ Diagnosis_Call
  \/ Diagnosis_AfterLogin
  \/ Diagnosis_AfterInfo
  \/ Diagnosis_AfterLogout
  \/ Diagnosis_Catch
  \/ SetSwitch_Call
  \/ SetSwitch_AfterLogin
  \/ SetSwitch_AfterRename
  \/ SetSwitch_AfterVlanMode
  \/ SetSwitch_AfterLogout
  \/ SetPort_Call
  \/ SetPort_AfterLogin
  \/ SetPort_AfterPort
  \/ SetPort_AfterLogout
  \/ SetVLAN_Call
  \/ SetVLAN_AfterLogin
  \/ SetVLAN_AfterVlan
  \/ SetVLAN_AfterLogout
  \/ Info_Call
  \/ Info_AfterLogin
  \/ Info_AfterSwitchInfo
  \/ Info_AfterPortInfo1
  \/ Info_AfterPortInfo2
  \/ Info_AfterVlanInfo
  \/ Info_AfterLogout
  \/ FetchRejects

Spec == Init /\ [][Next]_vars

(***************************************************************************)
(* Membership masks: a VLAN page with the masks of MaskPage is read by     *)
(* Info, and SetVLAN is then called with a VLAN of the result, one of its  *)
(* decoded port lists as members.                                          *)
(***************************************************************************)
MaskBits == 8

\* masks with bits among 8..15
WideMasks == {256, 511, 32768, 43690, 65535}
Masks == 0..(2 ^ MaskBits - 1) \cup WideMasks

\* the page's text of a mask: 0x and the upper-case hex digits
RECURSIVE HexText(_)
HexText(k) ==
  IF k < 16 THEN <<HexUpper[k + 1]>>
  ELSE HexText(k \div 16) \o <<HexUpper[(k % 16) + 1]>>

\* two VLANs, 3 and 4, both tagged with mask m; VLAN 3 has the other ports
\* of 1..8 untagged.  tagMask and untagMask record the numbers the texts
\* were written from.
MaskPage(m, sep) ==
  LET rest == (2 ^ PortMax - 1) - (m % (2 ^ PortMax))
      text(k) == <<"0", "x">> \o HexText(k)
  IN [script |-> TRUE,
      state |-> JsStr(<<"1">>),
      count |-> JsStr(<<"2">>),
      vids |-> CodeList(<<3, 4>>, sep),
      names |-> JsStr(JoinSep(<< <<"'", "n", "3", "'">>, <<"'", "n", "4", "'">> >>, sep)),
      tagMbrs |-> JsStr(JoinSep(<<text(m), text(m)>>, sep)),
      untagMbrs |-> JsStr(JoinSep(<<text(rest), text(0)>>, sep)),
      tagMask |-> m,
      untagMask |-> rest]

\* Info has logged in and fetched the identity page; the port pages had no
\* script; the VLAN page is awaited
InitMasks ==
  /\ op = "Info"
  /\ args = NoArgs
  /\ pc = "vlanInfo"
  /\ reqs = <<LoginReq, Get(SWITCH_INFO_PATH), Get(PORT_INFO_1_PATH),
              Get(PORT_INFO_2_PATH), Get(VLAN_INFO_PATH)>>
  /\ completed = 4
  /\ err = "none"
  /\ loginStatus = StatusOK
  /\ status2 = 0
  /\ connection_state = "none"
  /\ result = "none"
  /\ swtch = SwitchInfoParse(FullIdentityPage, EmptySwitch).swtch
  /\ pages = [NoPages EXCEPT !.identity = FullIdentityPage]

Info_AfterMaskPage ==
  /\ op = "Info"
  /\ Fulfilled("vlanInfo")
  /\ \E m \in Masks, sep \in Separators :
       /\ pages' = [pages EXCEPT !.vlan = MaskPage(m, sep)]
       /\ Parsed(VlanInfoParse(MaskPage(m, sep), swtch), LogoutReq, "logout")

\* the next call: SetVLAN with the id and name of a VLAN of the result and
\* its tagged or its untagged list as members
SetVLAN_CallDecoded ==
  /\ op = "Info"
  /\ pc = "returned"
  /\ \E v \in 1..Len(swtch.vlans), list \in {"tagged", "untagged"} :
       /\ op' = "SetVLAN"
       /\ args' = [NoArgs EXCEPT !.vlan = swtch.vlans[v].id,
                                 !.name = swtch.vlans[v].name,
                                 !.members = JsArr(swtch.vlans[v][list])]
  /\ Await(LoginReq, "login")
  /\ UNCHANGED infoVars
  /\ UNCHANGED <<completed, err, loginStatus, status2, connection_state, result>>

NextMasks ==
  \/ Info_AfterMaskPage
  \/ Info_AfterLogout
  \/ SetVLAN_CallDecoded
  \/ SetVLAN_AfterLogin
  \/ SetVLAN_AfterVlan
  \/ SetVLAN_AfterLogout

SpecMasks == InitMasks /\ [][NextMasks]_vars

(***************************************************************************)
(* Properties                                                              *)
(***************************************************************************)
SessionOps == {"Info", "SetSwitch", "SetPort", "SetVLAN"}

IsLogin(r) == r.method = "POST" /\ r.path = LOGIN_PATH
IsLogout(r) == r.method = "GET" /\ r.path = LOGOUT_PATH
HasKey(r, key) == \E i \in 1..Len(r.query) : r.query[i][1] = key
Param(r, key) == r.query[CHOOSE i \in 1..Len(r.query) : r.query[i][1] = key][2]

LogoutIssued == \E i \in 1..Len(reqs) : IsLogout(reqs[i])
IsRename(r) == r.path = SWITCH_PATH /\ HasKey(r, "sysName")
IsVlanMode(r) == r.path = VLAN_PATH /\ HasKey(r, "qvlan_en")
IsPortSet(r) == r.path = PORT_PATH
RenameIssued == \E i \in 1..Len(reqs) : IsRename(reqs[i])
VlanModeIssued == \E i \in 1..Len(reqs) : IsVlanMode(reqs[i])
PortSetIssued == \E i \in 1..Len(reqs) : IsPortSet(reqs[i])

\* The login request was answered.
LoginCompleted == completed >= 1

\* C1: in Info, SetSwitch, SetPort and SetVLAN, once the login request has
\* completed, a logout request has been issued whenever the routine has
\* ended, whether it returned or was left by a transport error.
C1_LogoutOnEveryExit ==
  (op \in SessionOps /\ LoginCompleted /\ pc \in {"returned", "rejected"})
    => LogoutIssued

\* C2: when one of the four routines has returned, the first request it
\* issued is the login, the last one the logout, and no request between
\* them is a login or a logout.
C2_Bracketed ==
  (op \in SessionOps /\ pc = "returned")
    => /\ Len(reqs) >= 2
       /\ IsLogin(reqs[1])
       /\ IsLogout(reqs[Len(reqs)])
       /\ \A i \in 2..(Len(reqs) - 1) : ~IsLogin(reqs[i]) /\ ~IsLogout(reqs[i])

C2_Witness ==
  /\ op = "SetVLAN" /\ pc = "returned" /\ err = "none"
  /\ Len(reqs) = 3 /\ reqs[2].path = VLAN_PATH

Rank(state) ==
  CASE state = "not accessible" -> 0
    [] state = "not authorized" -> 1
    [] state = "authorized" -> 2
    [] OTHER -> -1

\* what the three-state probe has established so far
Established ==
  IF ~LoginCompleted THEN "not accessible"
  ELSE IF status2 = StatusOK THEN "authorized"
  ELSE "not authorized"

\* C3: Diagnosis holds one of three connection states, the state never
\* goes back, it is 'not accessible' until the login POST completes, 'not
\* authorized' from then on unless the switch-info GET answers 200 and
\* 'authorized' once it does, and the value returned is that state.
C3_ThreeStates ==
  /\ [](op = "Diagnosis"
          => /\ connection_state = Established
             /\ (pc = "returned" => result = Established))
  /\ [][op = "Diagnosis" => Rank(connection_state') >= Rank(connection_state)]_vars

C3_Witness ==
  /\ op = "Diagnosis" /\ pc = "returned" /\ completed = 3
  /\ status2 # StatusOK /\ result = "not authorized"

\* C4 as stated: whenever Diagnosis has returned, a logout request was
\* attempted, whatever the outcome of the login POST.
C4_LogoutAlways ==
  (op = "Diagnosis" /\ pc = "returned") => LogoutIssued

\* C4 amended: whenever Diagnosis has returned after its login POST
\* completed, a logout request was attempted, whatever the status of the
\* switch-info GET.
C4_LogoutAfterLogin ==
  (op = "Diagnosis" /\ pc = "returned" /\ LoginCompleted) => LogoutIssued

C4_Witness ==
  /\ op = "Diagnosis" /\ pc = "returned" /\ LoginCompleted
  /\ status2 # StatusOK /\ IsLogout(reqs[Len(reqs)])

\* C5: in Diagnosis a timeout of the login POST makes the routine return
\* 'not accessible'; every other transport error of the login, switch-info
\* or logout request ends the process and nothing is returned.
C5_TimeoutOnlyNotFatal ==
  op = "Diagnosis"
    => /\ (err = "AbortError"
             => pc = "returned" /\ Len(reqs) = 1 /\ result = "not accessible")
       /\ (err = "FetchError" => pc = "exited" /\ result = "none")
       /\ (pc = "exited" => err = "FetchError")

C5_Witness ==
  /\ op = "Diagnosis" /\ pc = "exited" /\ err = "FetchError"
  /\ Len(reqs) = 3 /\ completed = 2

\* the name a rename is allowed for: a non-empty string of fewer than 32
\* characters, all of them in [a-zA-Z0-9_-]
NameIsValid(name) ==
  /\ name.t = "string"
  /\ Len(name.s) >= 1
  /\ Len(name.s) < NameLimit
  /\ \A i \in 1..Len(name.s) : name.s[i] \in AllowedChars

\* C6: once SetSwitch is past its login, the rename GET has been issued if
\* and only if the name is non-empty, shorter than 32 characters and made
\* of characters of [a-zA-Z0-9_-] only.
C6_RenameIffValid ==
  (op = "SetSwitch" /\ LoginCompleted) => (RenameIssued <=> NameIsValid(args.name))

\* SetSwitch has decided about the VLAN mode
PastVlanMode == pc \in {"vlanMode", "logout", "returned"}

\* C7: once SetSwitch has decided about the VLAN mode, the VLAN-mode GET
\* has been issued if and only if the flag is exactly 0 or exactly 1.
C7_VlanModeIffZeroOrOne ==
  (op = "SetSwitch" /\ PastVlanMode)
    => (VlanModeIssued <=> (StrictEqNum(args.vlan, 0) \/ StrictEqNum(args.vlan, 1)))

SpeedNames == {S_Auto, S_10MH, S_10MF, S_100MH, S_100MF, S_1000MF}

\* the number a port or state argument stands for (a numeric string
\* counts as its number)
NumberOf(v) == ParseInt(v)

\* C9: once SetPort is past its login, the port_setting.cgi GET has been
\* issued if and only if the port is in 1..8, the state is 0 or 1 and the
\* speed is one of Auto, 10MH, 10MF, 100MH, 100MF, 1000MF.
C9_PortIffValid ==
  (op = "SetPort" /\ LoginCompleted)
    => (PortSetIssued <=>
          /\ NumberOf(args.port).t = "number"
          /\ NumberOf(args.port).n \in PortMin..PortMax
          /\ NumberOf(args.state).t = "number"
          /\ NumberOf(args.state).n \in {0, 1}
          /\ args.speed.t = "string"
          /\ args.speed.s \in SpeedNames)

\* the 0-based index of a speed name in SPEEDS
SpeedIndex(name) == (CHOOSE i \in 1..Len(SPEEDS) : SPEEDS[i] = name) - 1

\* a call with a port number in 1..8, a state 0 or 1 and a speed name
PortCallIsValid ==
  /\ args.port.t = "number" /\ args.port.n \in PortMin..PortMax
  /\ args.state.t = "number" /\ args.state.n \in {0, 1}
  /\ args.speed.t = "string" /\ args.speed.s \in SpeedNames

\* C10: for a SetPort call with a port in 1..8, a state 0 or 1 and one of
\* the six speed names, once the login completed the second request is the
\* only port_setting.cgi GET, it carries portid = port, state = state,
\* speed = the 0-based index of the name in SPEEDS and flowcontrol = 0, and
\* the request after it is the logout.
C10_OnePortRequest ==
  (op = "SetPort" /\ LoginCompleted /\ PortCallIsValid)
    => /\ Len(reqs) >= 2
       /\ IsLogin(reqs[1])
       /\ \A i \in 1..Len(reqs) : IsPortSet(reqs[i]) <=> i = 2
       /\ Param(reqs[2], "portid") = IntToStr(args.port.n)
       /\ Param(reqs[2], "state") = IntToStr(args.state.n)
       /\ Param(reqs[2], "speed") = IntToStr(SpeedIndex(args.speed.s))
       /\ Param(reqs[2], "flowcontrol") = <<"0">>
       /\ (Len(reqs) >= 3 => Len(reqs) = 3 /\ IsLogout(reqs[3]))
       /\ (pc = "returned" => Len(reqs) = 3)

\* SetPort(server, username, password, 4, 0, '100MH') of the test routine
C10_Witness ==
  /\ op = "SetPort" /\ pc = "returned"
  /\ args.port = JsNum(4) /\ args.state = JsNum(0) /\ args.speed = JsStr(S_100MH)
  /\ Len(reqs) = 3 /\ IsPortSet(reqs[2]) /\ Param(reqs[2], "speed") = <<"4">>

IsVlanSet(r) == r.path = VLAN_PATH /\ ~HasKey(r, "qvlan_en")
IsVlanDelete(r) == IsVlanSet(r) /\ HasKey(r, "selVlans") /\ HasKey(r, "qvlan_del")
IsVlanAdd(r) == IsVlanSet(r) /\ HasKey(r, "vid") /\ HasKey(r, "qvlan_add")
VlanSetIssued == \E i \in 1..Len(reqs) : IsVlanSet(reqs[i])

SelKeys ==
  <<"selType_1", "selType_2", "selType_3", "selType_4", "selType_5", "selType_6",
    "selType_7", "selType_8">>

\* the text of a name is non-empty and made of a-z, A-Z, 0-9, - and _
VlanNameIsValid(name) ==
  LET text == JsToString(name)
  IN text # <<>> /\ \A i \in 1..Len(text) : text[i] \in AllowedChars

\* C11: SetVLAN has issued a request to qvlanSet.cgi only if the VLAN id is
\* in 2..32, the name is non-empty and made of the allowed characters, and
\* members is a list; for the ids 1 and 33 no such request is ever issued.
C11_VlanOnlyWhenValid ==
  (op = "SetVLAN" /\ VlanSetIssued)
    => /\ NumberOf(args.vlan).t = "number"
       /\ NumberOf(args.vlan).n \in VlanIdMin..VlanIdMax
       /\ NumberOf(args.vlan).n \notin {VlanIdMin - 1, VlanIdMax + 1}
       /\ VlanNameIsValid(args.name)
       /\ args.members.t = "array"

\* id 32 with name 'ops-1' and two members is accepted; id 1 and id 33 with
\* the same name and members are part of the calls explored
C11_Witness ==
  /\ op = "SetVLAN" /\ pc = "returned"
  /\ args.vlan = JsNum(VlanIdMax) /\ args.name = JsStr(<<"o", "p", "s", "-", "1">>)
  /\ Len(args.members.s) = 2
  /\ Len(reqs) = 3 /\ IsVlanAdd(reqs[2])

\* a call with an id in 2..32, a valid name and a member list
VlanCallIsValid ==
  /\ args.vlan.t = "number" /\ args.vlan.n \in VlanIdMin..VlanIdMax
  /\ args.name.t = "string" /\ VlanNameIsValid(args.name)
  /\ args.members.t = "array"

\* C12: for a SetVLAN call with a valid id, a valid name and a member list,
\* once the login completed the second request is the only request to
\* qvlanSet.cgi; for an empty list it is the delete request (selVlans = id,
\* qvlan_del = Delete, no vid, no qvlan_add), for a non-empty list it is the
\* add/modify request (vid = id, vname = name, selType_1..selType_8,
\* qvlan_add, no selVlans, no qvlan_del); the logout follows it.
C12_OneVlanRequest ==
  (op = "SetVLAN" /\ LoginCompleted /\ VlanCallIsValid)
    => /\ Len(reqs) >= 2
       /\ \A i \in 1..Len(reqs) : IsVlanSet(reqs[i]) <=> i = 2
       /\ IF args.members.s = <<>>
          THEN /\ IsVlanDelete(reqs[2])
               /\ Param(reqs[2], "selVlans") = IntToStr(args.vlan.n)
               /\ Param(reqs[2], "qvlan_del") = S_Delete
               /\ ~HasKey(reqs[2], "vid") /\ ~HasKey(reqs[2], "qvlan_add")
          ELSE /\ IsVlanAdd(reqs[2])
               /\ Param(reqs[2], "vid") = IntToStr(args.vlan.n)
               /\ Param(reqs[2], "vname") = args.name.s
               /\ \A p \in 1..Len(SelKeys) : HasKey(reqs[2], SelKeys[p])
               /\ Param(reqs[2], "qvlan_add") = S_AddModify
               /\ ~HasKey(reqs[2], "selVlans") /\ ~HasKey(reqs[2], "qvlan_del")
       /\ (Len(reqs) >= 3 => Len(reqs) = 3 /\ IsLogout(reqs[3]))
       /\ (pc = "returned" => Len(reqs) = 3)

\* a valid call with no members: the delete request for VLAN 3
C12_Witness ==
  /\ op = "SetVLAN" /\ pc = "returned" /\ VlanCallIsValid
  /\ args.vlan = JsNum(3) /\ args.members = JsArr(<<>>)
  /\ Len(reqs) = 3 /\ IsVlanDelete(reqs[2]) /\ Param(reqs[2], "selVlans") = <<"3">>

\* C14: SetVLAN(server, username, password, 3, []) of the test routine (the
\* empty list is the name, members is undefined): when it has returned, its
\* requests are the login, the delete request for VLAN 3 and the logout.
C14_TestRoutineDeletes ==
  (/\ op = "SetVLAN" /\ pc = "returned"
   /\ args.vlan = JsNum(3) /\ args.name = JsArr(<<>>) /\ args.members = JsUndef)
    => /\ Len(reqs) = 3
       /\ IsLogin(reqs[1])
       /\ IsVlanDelete(reqs[2])
       /\ Param(reqs[2], "selVlans") = <<"3">>
       /\ Param(reqs[2], "qvlan_del") = S_Delete
       /\ IsLogout(reqs[3])

Elements(list) == {list[i] : i \in 1..Len(list)}
BitIsSet(mask, k) == (mask \div (2 ^ k)) % 2 = 1
IsAscending(list) == \A i \in 1..(Len(list) - 1) : list[i] < list[i + 1]

\* C13: in every add/modify request of SetVLAN all eight parameters
\* selType_1..selType_8 are present, and selType_p is 1 if p is among the
\* members and 2 otherwise.
C13_SelTypePerPort ==
  op = "SetVLAN" =>
    \A i \in 1..Len(reqs) :
      IsVlanAdd(reqs[i]) =>
        \A p \in PortMin..PortMax :
          /\ HasKey(reqs[i], SelKeys[p])
          /\ Param(reqs[i], SelKeys[p]) =
               IF p \in Elements(args.members.s) THEN <<"1">> ELSE <<"2">>

\* members [2, 4, 6, 8], as in SetVLAN(..., 3, 'alpha', [2,4,6,8]) of the
\* test routine
C13_Witness ==
  /\ op = "SetVLAN" /\ pc = "returned"
  /\ args.members = JsArr(<<2, 4, 6, 8>>)
  /\ \E i \in 1..Len(reqs) :
       /\ IsVlanAdd(reqs[i])
       /\ Param(reqs[i], "selType_1") = <<"2">> /\ Param(reqs[i], "selType_2") = <<"1">>
       /\ Param(reqs[i], "selType_8") = <<"1">>

\* the VLAN page of the masks has been decoded
MasksDecoded == "tagMask" \in DOMAIN pages.vlan /\ Len(swtch.vlans) = 2

\* C15: when the VLAN page has been decoded, the tagged and the untagged
\* list of a VLAN hold port p exactly when p is in 1..8 and bit p-1 of the
\* mask is set; bits 8..15 add nothing, every list is a subset of 1..8.
C15_OnlyPortsOneToEight ==
  MasksDecoded =>
    /\ \A p \in 1..16 :
         /\ p \in Elements(swtch.vlans[1].tagged)
              <=> (p \in PortMin..PortMax /\ BitIsSet(pages.vlan.tagMask, p - 1))
         /\ p \in Elements(swtch.vlans[1].untagged)
              <=> (p \in PortMin..PortMax /\ BitIsSet(pages.vlan.untagMask, p - 1))
    /\ Elements(swtch.vlans[1].tagged) \subseteq PortMin..PortMax
    /\ Elements(swtch.vlans[1].untagged) \subseteq PortMin..PortMax

\* the add/modify request of a call whose members are the given list has
\* selType_p = 1 exactly for the bits of mask
WrittenAs(list, mask) ==
  (op = "SetVLAN" /\ args.members = JsArr(list)) =>
    \A i \in 1..Len(reqs) :
      IsVlanAdd(reqs[i]) =>
        \A p \in PortMin..PortMax :
          Param(reqs[i], SelKeys[p]) = <<"1">> <=> BitIsSet(mask, p - 1)

\* C16: for a mask with bits in positions 0..7 only, the decoded list holds,
\* in ascending order, port p exactly when bit p-1 is set (FF gives 1..8, AA
\* gives 2, 4, 6, 8 and 00 the empty list); the same mask text decoded a
\* second time gives the same list; and the add/modify request SetVLAN
\* builds from the decoded list has selType_p = 1 exactly for the set bits.
C16_DecodeThenEncode ==
  (MasksDecoded /\ pages.vlan.tagMask < 2 ^ PortMax) =>
    LET tagged == swtch.vlans[1].tagged
        untagged == swtch.vlans[1].untagged
    IN /\ IsAscending(tagged) /\ IsAscending(untagged)
       /\ Elements(tagged) = {p \in PortMin..PortMax : BitIsSet(pages.vlan.tagMask, p - 1)}
       /\ Elements(untagged) = {p \in PortMin..PortMax : BitIsSet(pages.vlan.untagMask, p - 1)}
       /\ swtch.vlans[2].tagged = tagged
       /\ (pages.vlan.tagMask = 255 => tagged = <<1, 2, 3, 4, 5, 6, 7, 8>>)
       /\ (pages.vlan.tagMask = 170 => tagged = <<2, 4, 6, 8>>)
       /\ (pages.vlan.tagMask = 0 => tagged = <<>>)
       /\ WrittenAs(tagged, pages.vlan.tagMask)
       /\ WrittenAs(untagged, pages.vlan.untagMask)

\* mask AA was decoded and written back
C16_Witness ==
  /\ MasksDecoded /\ pages.vlan.tagMask = 170
  /\ op = "SetVLAN" /\ pc = "returned"
  /\ args.members = JsArr(swtch.vlans[1].tagged)
  /\ \E i \in 1..Len(reqs) : IsVlanAdd(reqs[i]) /\ Param(reqs[i], "selType_2") = <<"1">>

\* the speed a wire code stands for: the entry of SPEEDS at the index the
\* text denotes, nothing for a text that denotes no index 0..7
DecodeSpeed(entry) ==
  LET code == NumberOf(entry)
  IN IF code.t = "number" /\ code.n \in 0..(Len(SPEEDS) - 1)
     THEN JsStr(SPEEDS[code.n + 1]) ELSE JsUndef

DecodeState(entry) ==
  LET code == NumberOf(entry)
  IN IF code.t = "number" /\ code.n \in 0..(Len(STATES) - 1)
     THEN JsStr(STATES[code.n + 1]) ELSE JsUndef

\* the entries of a list attribute and the port count of a page
Entry(attr, i) == At(Split(attr.s, ","), i)
PortCountOf(page) == LoopCount(NumberOf(page.max_port_num))

SettingsParsed == pages.setting.script /\ pages.setting.state.t = "string"
StatsParsed ==
  pages.stats.script /\ pages.stats.link_status.t = "string" /\ pages.stats.pkts.t = "string"

\* a speed or link code of the pages read so far is not an index 0..7
CodeOutOfRange ==
  \/ /\ SettingsParsed
     /\ \E i \in 0..(PortCountOf(pages.setting) - 1) :
          DecodeSpeed(Entry(pages.setting.spd_act, i)) = JsUndef
  \/ /\ StatsParsed
     /\ \E i \in 0..(PortCountOf(pages.stats) - 1) :
          DecodeSpeed(Entry(pages.stats.link_status, i)) = JsUndef

\* C17: when a speed or link code of a page Info has read is not an index
\* 0..7 of SPEEDS, Info has ended with an error.
C17_OutOfRangeIsError ==
  (op = "Info" /\ CodeOutOfRange) => pc = "rejected"

\* C18: when Info has returned, for every port index i below the port count
\* of the settings page ports[i].state is the decoding of state[i] and
\* ports[i].speed the decoding of spd_cfg[i].
C18_StateAndConfiguredSpeed ==
  (op = "Info" /\ pc = "returned" /\ SettingsParsed) =>
    \A i \in 0..(PortCountOf(pages.setting) - 1) :
      /\ i + 1 <= Len(swtch.ports)
      /\ swtch.ports[i + 1].state = DecodeState(Entry(pages.setting.state, i))
      /\ swtch.ports[i + 1].speed = DecodeSpeed(Entry(pages.setting.spd_cfg, i))

\* C19: the step of Info that parses the statistics page keeps the number
\* of ports and the number, state and speed of every port, and sets, for
\* every port index i below the page's port count, link to the decoding of
\* link_status[i] and TxGoodPkt, TxBadPkt, RxGoodPkt, RxBadPkt to pkts[4i],
\* pkts[4i+1], pkts[4i+2], pkts[4i+3].
C19_StatsStep ==
  [][(op = "Info" /\ pc = "portInfo2" /\ pc' = "vlanInfo" /\ StatsParsed') =>
       /\ Len(swtch'.ports) = Len(swtch.ports)
       /\ \A j \in 1..Len(swtch.ports) :
            /\ swtch'.ports[j].number = swtch.ports[j].number
            /\ swtch'.ports[j].state = swtch.ports[j].state
            /\ swtch'.ports[j].speed = swtch.ports[j].speed
       /\ \A i \in 0..(PortCountOf(pages'.stats) - 1) :
            /\ i + 1 <= Len(swtch'.ports)
            /\ swtch'.ports[i + 1].link = DecodeSpeed(Entry(pages'.stats.link_status, i))
            /\ swtch'.ports[i + 1].TxGoodPkt = NumberOf(Entry(pages'.stats.pkts, 4 * i))
            /\ swtch'.ports[i + 1].TxBadPkt = NumberOf(Entry(pages'.stats.pkts, 4 * i + 1))
            /\ swtch'.ports[i + 1].RxGoodPkt = NumberOf(Entry(pages'.stats.pkts, 4 * i + 2))
            /\ swtch'.ports[i + 1].RxBadPkt = NumberOf(Entry(pages'.stats.pkts, 4 * i + 3))
    ]_vars

\* C20: when the statistics page Info has read counts more ports than were
\* allocated, Info is closing the session or has ended with an error after
\* its logout request.
C20_UnallocatedPortGuarded ==
  (op = "Info" /\ StatsParsed /\ PortCountOf(pages.stats) > Len(swtch.ports))
    => \/ pc = "logout"
       \/ pc = "rejected" /\ LogoutIssued

\* a page Info has read has its script but lacks an attribute the parser
\* reads
LacksAttribute ==
  \/ pages.identity.script /\ \E k \in IdentityKeys : pages.identity.attrs[k] = JsNull
  \/ pages.setting.script /\ (pages.setting.state = JsNull \/ pages.setting.spd_act = JsNull)
  \/ pages.stats.script /\ (pages.stats.link_status = JsNull \/ pages.stats.pkts = JsNull)
  \/ /\ pages.vlan.script
     /\ \E k \in {"vids", "names", "tagMbrs", "untagMbrs"} : pages.vlan[k] = JsNull

\* C21: when a page Info has read lacks an attribute, Info is not ended by
\* an error of the parser: it goes on to the next request, up to the logout
\* and the return of the result.
C21_MissingDataIsNotFatal ==
  (op = "Info" /\ LacksAttribute) => (err # "TypeError" /\ pc # "rejected")

\* C24: when Info has returned after a VLAN page whose names are separated
\* by a comma and a blank, the name of every VLAN of the result is the
\* page's entry without surrounding white space and enclosing quotes.
C24_EveryVlanNameStripped ==
  (/\ op = "Info" /\ pc = "returned"
   /\ pages.vlan.script /\ pages.vlan.names.t = "string"
   /\ Len(Split(pages.vlan.names.s, ",")) >= 2
   /\ \A i \in 2..Len(Split(pages.vlan.names.s, ",")) :
        Head(Split(pages.vlan.names.s, ",")[i]) = " ")
    => \A v \in 1..Len(swtch.vlans) :
         swtch.vlans[v].name = JsStr(StripQuotes(Trim(Entry(pages.vlan.names, v - 1).s)))

\* C25: in Info, SetSwitch, SetPort and SetVLAN, once the login POST has
\* completed, whatever its status, the next request has been issued: the
\* identity GET of Info, and the mutating request of a SetSwitch, SetPort
\* or SetVLAN call with valid parameters.
C25_LoginStatusIgnored ==
  (op \in SessionOps /\ LoginCompleted) =>
    /\ Len(reqs) >= 2
    /\ (op = "Info" => reqs[2] = Get(SWITCH_INFO_PATH))
    /\ ((op = "SetSwitch" /\ NameIsValid(args.name)) => IsRename(reqs[2]))
    /\ ((op = "SetPort" /\ PortCallIsValid) => IsPortSet(reqs[2]))
    /\ ((op = "SetVLAN" /\ VlanCallIsValid) => IsVlanSet(reqs[2]))

\* the login was answered 401 and Info went on to read all pages
C25_Witness ==
  /\ op = "Info" /\ pc = "returned" /\ loginStatus # StatusOK
  /\ Len(reqs) = 6 /\ reqs[2] = Get(SWITCH_INFO_PATH)

InfoRequests ==
  <<LoginReq, Get(SWITCH_INFO_PATH), Get(PORT_INFO_1_PATH), Get(PORT_INFO_2_PATH),
    Get(VLAN_INFO_PATH), LogoutReq>>

\* C26: the requests of Info are, in this order, the login POST, the GETs
\* of the identity, settings, statistics and VLAN pages and the logout GET;
\* a request is issued only when all requests before it were answered (at
\* most one is in flight); when Info has returned all six were issued and
\* answered.
C26_SixRequestsInOrder ==
  op = "Info" =>
    /\ Len(reqs) <= Len(InfoRequests)
    /\ \A i \in 1..Len(reqs) : reqs[i] = InfoRequests[i]
    /\ Len(reqs) - completed \in {0, 1}
    /\ (pc \in AwaitPoints => Len(reqs) - completed = 1)
    /\ (pc = "returned" => (reqs = InfoRequests /\ completed = Len(InfoRequests)))

C26_Witness ==
  /\ op = "Info" /\ pc = "returned" /\ err = "none"
  /\ reqs = InfoRequests /\ completed = 6
  /\ pages.setting.script /\ pages.stats.script /\ pages.vlan.script

\* C27: when Info has returned, ports[i].number is i + 1 for every index i
\* of the ports list and every port number is in 1..8.
C27_PortNumbersOneToEight ==
  (op = "Info" /\ pc = "returned") =>
    \A j \in 1..Len(swtch.ports) :
      /\ swtch.ports[j].number = JsNum(j)
      /\ j \in PortMin..PortMax

\* every parameter of the call fails the validation of its operation
AllParametersInvalid ==
  \/ /\ op = "SetSwitch"
     /\ ~NameIsValid(args.name)
     /\ ~(StrictEqNum(args.vlan, 0) \/ StrictEqNum(args.vlan, 1))
  \/ /\ op = "SetPort"
     /\ ~(NumberOf(args.port).t = "number" /\ NumberOf(args.port).n \in PortMin..PortMax)
     /\ ~(NumberOf(args.state).t = "number" /\ NumberOf(args.state).n \in {0, 1})
     /\ ~(args.speed.t = "string" /\ args.speed.s \in SpeedNames)
  \/ /\ op = "SetVLAN"
     /\ ~(NumberOf(args.vlan).t = "number" /\ NumberOf(args.vlan).n \in VlanIdMin..VlanIdMax)
     /\ ~VlanNameIsValid(args.name)
     /\ args.members.t # "array"

\* C28: for a call of SetSwitch, SetPort or SetVLAN whose parameters all
\* fail validation, the request after the login is the logout, and when the
\* call has returned its requests are the login and the logout and no
\* error was raised.
C28_InvalidCallLoginLogout ==
  AllParametersInvalid =>
    /\ (LoginCompleted => (Len(reqs) = 2 /\ IsLogin(reqs[1]) /\ IsLogout(reqs[2])))
    /\ (pc = "returned" => err = "none")

\* a valid call whose non-empty member list has no port of 1..8
NoMemberInRange ==
  /\ op = "SetVLAN" /\ VlanCallIsValid
  /\ args.members.s # <<>>
  /\ Elements(args.members.s) \cap (PortMin..PortMax) = {}

\* C30: for a SetVLAN call with a valid id, a valid name and a non-empty
\* member list that holds no port of 1..8, once the login completed the
\* second request is an add/modify request whose eight selType parameters
\* are all 2; no delete request is issued and the call returns without an
\* error.
C30_MembersNotChecked ==
  (NoMemberInRange /\ LoginCompleted) =>
    /\ Len(reqs) >= 2
    /\ IsVlanAdd(reqs[2])
    /\ \A p \in PortMin..PortMax : Param(reqs[2], SelKeys[p]) = <<"2">>
    /\ \A i \in 1..Len(reqs) : ~IsVlanDelete(reqs[i])
    /\ (pc = "returned" => (err = "none" /\ Len(reqs) = 3))

\* members [9]
C30_Witness ==
  /\ NoMemberInRange /\ pc = "returned"
  /\ args.members = JsArr(<<9>>)
  /\ Len(reqs) = 3 /\ IsVlanAdd(reqs[2]) /\ Param(reqs[2], "selType_1") = <<"2">>


(***************************************************************************)
(* The extractors, character by character.  A text is a sequence of        *)
(* one-character strings; positions are counted from 1.                    *)
(***************************************************************************)
UpperLetters == <<"A", "B", "C", "D", "E", "F", "G", "H", "I", "J", "K", "L", "M",
                  "N", "O", "P", "Q", "R", "S", "T", "U", "V", "W", "X", "Y", "Z">>
LowerLetters == <<"a", "b", "c", "d", "e", "f", "g", "h", "i", "j", "k", "l", "m",
                  "n", "o", "p", "q", "r", "s", "t", "u", "v", "w", "x", "y", "z">>

\* flag i of the regular expression: letters compare without case
FoldCase(c) ==
  IF \E k \in 1..26 : UpperLetters[k] = c
  THEN LowerLetters[CHOOSE k \in 1..26 : UpperLetters[k] = c]
  ELSE c

\* the literal lit stands in txt at position p
LiteralAt(txt, p, lit, fold) ==
  /\ p >= 1
  /\ p + Len(lit) - 1 <= Len(txt)
  /\ \A k \in 1..Len(lit) :
       IF fold THEN FoldCase(txt[p + k - 1]) = FoldCase(lit[k])
       ELSE txt[p + k - 1] = lit[k]

\* the first position from p on where lit stands, 0 when there is none
FirstAt(txt, p, lit, fold) ==
  LET found == {q \in p..Len(txt) : LiteralAt(txt, q, lit, fold)}
  IN IF found = {} THEN 0 ELSE CHOOSE q \in found : \A r \in found : q <= r

\* '<' + tag + '>' and the text the pattern '<\/' + tag + '>' matches
OpenTag(tag) == <<"<">> \o tag \o <<">">>
ClosingTag(tag) == <<"<", "/">> \o tag \o <<">">>
\* closeTag.length: the pattern string '<\/' + tag + '>' counts its backslash
CloseTagLength(tag) == Len(tag) + 4

\* txt.match(regex) with flag g: the matches from left to right, each from an
\* opening tag to the first closing tag after it, the next one searched
\* behind the end of the one before
RECURSIVE TagMatches(_, _, _)
TagMatches(txt, tag, from) ==
  LET p == FirstAt(txt, from, OpenTag(tag), TRUE)
      q == IF p = 0 THEN 0
           ELSE FirstAt(txt, p + Len(OpenTag(tag)), ClosingTag(tag), TRUE)
      end == q + Len(ClosingTag(tag)) - 1
  IN IF p = 0 \/ q = 0 THEN <<>>
     ELSE <<SubSeq(txt, p, end)>> \o TagMatches(txt, tag, end + 1)

\* lines 697-705; substr(k) and slice(0, -k) give '' when k is the length
\* of the text or more
ExtractTagContent(txt, tag, n) ==
  LET matches == TagMatches(txt, tag, 1)
      Substr(str, k) == IF k >= Len(str) THEN <<>> ELSE SubSeq(str, k + 1, Len(str))
      SliceOff(str, k) == IF k >= Len(str) THEN <<>> ELSE SubSeq(str, 1, Len(str) - k)
  IN IF Len(matches) <= n THEN JsNull
     ELSE JsStr(SliceOff(Substr(matches[n + 1], Len(OpenTag(tag))),
                         CloseTagLength(tag)))


\* \w and \d of the regular expression
IsDigit(c) == \E d \in 0..9 : Digits[d + 1] = c
IsWord(c) ==
  \/ IsDigit(c)
  \/ c = "_"
  \/ \E k \in 1..26 : UpperLetters[k] = c \/ LowerLetters[k] = c

CharAt(txt, p) == IF 1 <= p /\ p <= Len(txt) THEN txt[p] ELSE ""

\* \b in front of position p
WordBoundary(txt, p) == IsWord(CharAt(txt, p - 1)) # IsWord(CharAt(txt, p))

\* \s* from position p: the position behind the blanks
RECURSIVE BehindBlanks(_, _)
BehindBlanks(txt, p) ==
  IF CharAt(txt, p) \in WhiteSpace THEN BehindBlanks(txt, p + 1) ELSE p

\* the five alternatives at position c; each gives the number of its group
\* and the group's text, group 0 when no group took part, or fails
NoMatch == [found |-> FALSE, group |-> 0, text |-> <<>>]
Matched(g, v) == [found |-> TRUE, group |-> g, text |-> v]

\* open ([^close]*) close
Enclosed(txt, c, open, close, g) ==
  LET q == FirstAt(txt, c + 1, <<close>>, FALSE)
  IN IF CharAt(txt, c) = open /\ q # 0 THEN Matched(g, SubSeq(txt, c + 1, q - 1))
     ELSE NoMatch

\* \b(true|false)\b
ABoolean(txt, c) ==
  LET true == <<"t", "r", "u", "e">>
      false == <<"f", "a", "l", "s", "e">>
      is(word) == /\ LiteralAt(txt, c, word, FALSE)
                  /\ WordBoundary(txt, c + Len(word))
  IN IF ~WordBoundary(txt, c) THEN NoMatch
     ELSE IF is(true) THEN Matched(2, true)
     ELSE IF is(false) THEN Matched(2, false)
     ELSE NoMatch

\* (\d+\.?\d?) followed by \b, the backtracking order of the engine: the
\* longest run of digits first, the point before no point, the last digit
\* before no last digit; the position behind the group, 0 when every way fails
RECURSIVE NumberEnd(_, _, _)
NumberEnd(txt, c, k) ==
  LET e == c + k
  IN IF k = 0 THEN 0
     ELSE IF CharAt(txt, e) = "." /\ IsDigit(CharAt(txt, e + 1))
             /\ WordBoundary(txt, e + 2) THEN e + 2
     ELSE IF CharAt(txt, e) = "." /\ WordBoundary(txt, e + 1) THEN e + 1
     ELSE IF IsDigit(CharAt(txt, e)) /\ WordBoundary(txt, e + 1) THEN e + 1
     ELSE IF WordBoundary(txt, e) THEN e
     ELSE NumberEnd(txt, c, k - 1)

\* \b(\d+\.?\d?)?\b: when the group fails it is left out and the two \b
\* match at the same place
ANumber(txt, c) ==
  LET e == NumberEnd(txt, c, Len(DigitRun(SubSeq(txt, c, Len(txt)))))
  IN IF ~WordBoundary(txt, c) THEN NoMatch
     ELSE IF e # 0 THEN Matched(3, SubSeq(txt, c, e - 1))
     ELSE Matched(0, <<>>)

Alternatives(txt, c) ==
  LET aString == Enclosed(txt, c, "'", "'", 1)
      aList == Enclosed(txt, c, "[", "]", 4)
      aDict == Enclosed(txt, c, "{", "}", 5)
  IN IF aString.found THEN aString
     ELSE IF ABoolean(txt, c).found THEN ABoolean(txt, c)
     ELSE IF ANumber(txt, c).found THEN ANumber(txt, c)
     ELSE IF aList.found THEN aList
     ELSE aDict

\* the expression tried at start position p.  Every alternative begins with
\* a character that is no blank or with a \b that no position within blanks
\* behind the colon satisfies, so giving back blanks of \s* opens no match.
AttributeAt(txt, attribute, p) ==
  LET colon == BehindBlanks(txt, p + Len(attribute))
  IN IF LiteralAt(txt, p, attribute, FALSE) /\ CharAt(txt, colon) = ":"
     THEN Alternatives(txt, BehindBlanks(txt, colon + 1))
     ELSE NoMatch

\* txt.match(regex): the match at the leftmost start position that has one
AttributeMatch(txt, attribute) ==
  LET starts == {p \in 1..Len(txt) : AttributeAt(txt, attribute, p).found}
  IN IF starts = {} THEN NoMatch
     ELSE AttributeAt(txt, attribute, CHOOSE p \in starts : \A r \in starts : p <= r)

\* lines 765-773: the first group that is truthy; an empty text is falsy
ExtractAttribute(txt, attribute) ==
  LET match == AttributeMatch(txt, attribute)
  IN IF ~match.found \/ match.group = 0 \/ match.text = <<>> THEN JsNull
     ELSE IF match.group \in {4, 5} THEN JsStr(Trim(match.text))
     ELSE JsStr(StripQuotes(Trim(match.text)))


(***************************************************************************)
(* The extractors applied to texts: a second specification.  args holds    *)
(* the text, the tag, the attribute and the index of the call; result      *)
(* holds what the extractor returned.                                      *)
(***************************************************************************)
MaxPieces == 4
MaxIndex == 1

\* what a document is put together from: opening and closing tags of either
\* case and single characters
RECURSIVE Documents(_)
Documents(k) ==
  IF k = 0 THEN {<<>>}
  ELSE LET Pieces == {OpenTag(<<"s">>), ClosingTag(<<"s">>), OpenTag(<<"S">>),
                      <<"a">>, <<"b">>}
           shorter == Documents(k - 1)
       IN shorter \cup {d \o piece : d \in shorter, piece \in Pieces}

\* the values that follow the colon
AttributeValues ==
  {<<"'", "a", "b", "'">>, <<"'", "'">>, <<"'", " ", "a", " ", "'">>, <<"'", "a">>,
   <<"t", "r", "u", "e">>, <<"f", "a", "l", "s", "e">>, <<"t", "r", "u">>, <<"1", "2">>, <<"1", ".", "5">>, <<"1", ".", "5", "5">>,
   <<"1", "2", "a">>, <<"a", "b", "c">>,
   <<"[", "1", ",", " ", "0", "]">>, <<"[", "]">>, <<"[", "1">>,
   <<"{", "a", ":", "1", "}">>, <<"{", "}">>, <<"@">>, <<>>}

\* key, blanks, colon, blanks, value, and what stands before and behind;
\* the text of the comment at lines 497-500; a text without the key
AttributeTexts ==
  {[txt |-> before \o <<"k">> \o b1 \o <<":">> \o b2 \o value \o behind, attribute |-> <<"k">>] :
     before \in {<<>>, <<"{", " ">>, <<"k", ":", "@", " ">>},
     b1 \in {<<>>, <<" ">>}, b2 \in {<<>>, <<" ">>},
     value \in AttributeValues,
     behind \in {<<>>, <<",">>, <<"x">>}}
  \cup {[txt |-> <<"s", "t", "a", "t", "e", ":", " ", "[">>
                 \o JoinSep([i \in 1..10 |-> IF i <= 8 THEN <<"1">> ELSE <<"0">>],
                            <<",", " ">>)
                 \o <<"]">>,
         attribute |-> <<"s", "t", "a", "t", "e">>],
        [txt |-> <<"a", ":", "1">>, attribute |-> <<"k">>]}

InitExtract ==
  /\ op = "none"
  /\ \E i \in {[txt |-> d, attribute |-> <<"k">>] : d \in Documents(MaxPieces)}
                 \cup AttributeTexts,
        n \in 0..MaxIndex :
       args = [txt |-> i.txt, tag |-> <<"s">>, attribute |-> i.attribute, n |-> n]
  /\ pc = "idle"
  /\ reqs = <<>>
  /\ completed = 0
  /\ err = "none"
  /\ loginStatus = 0
  /\ status2 = 0
  /\ connection_state = "none"
  /\ result = "none"
  /\ swtch = EmptySwitch
  /\ pages = NoPages

ExtractTagContent_Call ==
  /\ pc = "idle"
  /\ op' = "extractTagContent"
  /\ result' = ExtractTagContent(args.txt, args.tag, args.n)
  /\ pc' = "returned"
  /\ UNCHANGED <<args, reqs, completed, err, loginStatus, status2,
                 connection_state, swtch, pages>>

ExtractAttribute_Call ==
  /\ pc = "idle"
  /\ op' = "extractAttribute"
  /\ result' = ExtractAttribute(args.txt, args.attribute)
  /\ pc' = "returned"
  /\ UNCHANGED <<args, reqs, completed, err, loginStatus, status2,
                 connection_state, swtch, pages>>

NextExtract ==
  \/ ExtractTagContent_Call
  \/ ExtractAttribute_Call

SpecExtract == InitExtract /\ [][NextExtract]_vars

\* C22: extractTagContent(document, tag, n) returns the text strictly
\* between the (n+1)-th opening tag and the first closing tag after it, null
\* when the document has fewer than n+1 paired occurrences; the result for
\* index 0 holds nothing of a second block.
C22_InnerTextReturned ==
  (op = "extractTagContent" /\ pc = "returned") =>
    LET paired == TagMatches(args.txt, args.tag, 1)
        whole == paired[args.n + 1]
        inner == SubSeq(whole, Len(OpenTag(args.tag)) + 1,
                        Len(whole) - Len(ClosingTag(args.tag)))
    IN IF Len(paired) <= args.n THEN result = JsNull
       ELSE /\ result = JsStr(inner)
            /\ FirstAt(inner, 1, ClosingTag(args.tag), TRUE) = 0

\* C23: extractAttribute(text, key) returns the value of the first shape
\* that matches behind the key and its colon, in the order string, boolean,
\* number, list, dict (a list and a dict as their inner text), and null when
\* no shape matches.
C23_FirstShapeReturned ==
  (op = "extractAttribute" /\ pc = "returned") =>
    LET match == AttributeMatch(args.txt, args.attribute)
    IN IF match.found /\ match.group # 0
       THEN result = JsStr(IF match.group \in {4, 5} THEN Trim(match.text)
                           ELSE StripQuotes(Trim(match.text)))
       ELSE result = JsNull


(***************************************************************************)
(* Two routines called one after the other without awaiting the first: a   *)
(* third specification.  op, args and pc hold one entry for each call;     *)
(* reqs holds the requests of both in the order they were handed to fetch, *)
(* each with the call it belongs to.  Every fetch is fulfilled.            *)
(***************************************************************************)
Procs == {"A", "B"}

PairCalls ==
  {[op |-> "Diagnosis", args |-> NoArgs]}
    \cup {[op |-> "SetPort",
           args |-> [NoArgs EXCEPT !.port = JsNum(k), !.state = JsNum(1),
                                   !.speed = JsStr(SPEEDS[1])]] : k \in {PortMin, PortMax + 1}}

InitPair ==
  /\ op = [p \in Procs |-> "none"]
  /\ args = [p \in Procs |-> NoArgs]
  /\ pc = [p \in Procs |-> "idle"]
  /\ reqs = <<>>
  /\ completed = 0
  /\ err = "none"
  /\ loginStatus = 0
  /\ status2 = 0
  /\ connection_state = "none"
  /\ result = "none"
  /\ swtch = EmptySwitch
  /\ pages = NoPages

\* fetch(r) of call p, suspended at the await
PairAwait(p, r, at) ==
  /\ reqs' = Append(reqs, [by |-> p, req |-> r])
  /\ pc' = [pc EXCEPT ![p] = at]

PairRest == <<err, loginStatus, status2, connection_state, result, swtch, pages>>

\* a faulty variant: a call starts only when no other call is in flight
Pair_Call_Locked(p) ==
  /\ pc[p] = "idle"
  /\ \A q \in Procs : pc[q] \in {"idle", "returned"}
  /\ \E c \in PairCalls :
       /\ op' = [op EXCEPT ![p] = c.op]
       /\ args' = [args EXCEPT ![p] = c.args]
  /\ PairAwait(p, LoginReq, "login")
  /\ UNCHANGED completed
  /\ UNCHANGED PairRest

\* the routine runs up to its first await: nothing is tested before
Pair_Call(p) ==
  /\ pc[p] = "idle"
  /\ \E c \in PairCalls :
       /\ op' = [op EXCEPT ![p] = c.op]
       /\ args' = [args EXCEPT ![p] = c.args]
  /\ PairAwait(p, LoginReq, "login")
  /\ UNCHANGED completed
  /\ UNCHANGED PairRest

Pair_AfterLogin(p) ==
  /\ pc[p] = "login"
  /\ completed' = completed + 1
  /\ LET portIndex == ParseInt(args[p].port)
         mode == ParseInt(args[p].state)
         speedIndex == SPEED2VALUE(args[p].speed)
     IN IF op[p] = "Diagnosis" THEN PairAwait(p, Get(SWITCH_INFO_PATH), "switchInfo")
        ELSE IF PortCond(portIndex, mode, speedIndex)
        THEN PairAwait(p, PortReq(portIndex, mode, speedIndex), "port")
        ELSE PairAwait(p, LogoutReq, "logout")
  /\ UNCHANGED <<op, args>>
  /\ UNCHANGED PairRest

Pair_AfterRequest(p) ==
  /\ pc[p] \in {"switchInfo", "port"}
  /\ completed' = completed + 1
  /\ PairAwait(p, LogoutReq, "logout")
  /\ UNCHANGED <<op, args>>
  /\ UNCHANGED PairRest

Pair_AfterLogout(p) ==
  /\ pc[p] = "logout"
  /\ completed' = completed + 1
  /\ pc' = [pc EXCEPT ![p] = "returned"]
  /\ UNCHANGED <<op, args, reqs>>
  /\ UNCHANGED PairRest

PairStep(p) ==
  \/ Pair_Call(p)
  \/ Pair_AfterLogin(p)
  \/ Pair_AfterRequest(p)
  \/ Pair_AfterLogout(p)

NextPair == \E p \in Procs : PairStep(p)

SpecPair == InitPair /\ [][NextPair]_vars

\* C29: nothing makes a routine wait for another one: a call that has not
\* returned can always take its next step, whatever the other call is at,
\* so one call's logout can be issued between the other call's login and
\* its read or mutating request.
C29_NoMutualExclusion ==
  \A p \in Procs : pc[p] # "returned" => ENABLED PairStep(p)

C29_Witness ==
  \E i, j, k \in 1..Len(reqs) :
    /\ i < j /\ j < k
    /\ reqs[i].by = reqs[k].by /\ reqs[j].by # reqs[i].by
    /\ IsLogin(reqs[i].req)
    /\ IsLogout(reqs[j].req)
    /\ ~IsLogin(reqs[k].req) /\ ~IsLogout(reqs[k].req)
    /\ \A m \in (j + 1)..(k - 1) : ~IsLogin(reqs[m].req)

====
